---------------------------- MODULE Spec2Model ----------------------------
(***************************************************************************)
(* Model of kernel/core/disk.c: the partition list of one disk with its    *)
(* mount registrations (disk_part_add, __disk_part_block, disk_part_clear, *)
(*                                                                         *)
(* disk_scan), the byte-to-sector translation (__disk_do_size) and the     *)
(* registry of disks (disk_add, disk_remove, disk_next).                   *)
(*                                                                         *)
(* Spec      : the partition lifecycle of one disk.                        *)
(* SpecIO    : one __disk_do_size transfer, its request drawn in InitIO.   *)
(* SpecClear : one run of the loop of disk_part_clear.                     *)
(* SpecReg   : the registry and a caller iterating over it.                *)
(* SpecNull  : the public operations called with a null disk.              *)
(***************************************************************************)
EXTENDS Integers, Sequences, FiniteSets, TLC

VARIABLES
    available,    \* disk->available
    parts,        \* disk->parts: the list, head first, of partition records
    part_count,   \* disk->part_count
    vfs,          \* the mount registry walked by vfs_next
    pc,           \* position of the running operation
    trav,         \* disk_part_clear: trav (a partition id or NULL)
    pre,          \* disk_part_clear: pre (a partition id or NULL)
    running,      \* the public operation running or last finished
    nadd,         \* disk_part_add calls made by the parsers of this scan
    last_add,     \* history: the disk_part_add call made by the last step
    scan,         \* history: the disk_scan running or last finished
    log,          \* history: mount and heap events of the operation
    kept,         \* history: partitions kept by a disk_part_clear pass
    io_pc,        \* __disk_do_size: position
    sector_size,  \* disk->sector_size
    op,           \* __disk_do_size: op
    lba,          \* __disk_do_size: lba
    size,         \* __disk_do_size: size
    buf,          \* the caller's buffer, byte 0 first
    rem,          \* __disk_do_size: rem
    buf_offset,   \* __disk_do_size: buf_offset
    cb,           \* __disk_do_size: the scratch buffer cb
    ret,          \* what __disk_do_size returned
    media,        \* the sectors of the device, sector 0 first
    req,          \* history: the arguments of the call
    raw_calls,    \* history: the __disk_do_raw calls made, in order
    copies,       \* history: the memcpy calls made, in order
    controller,   \* disk->controller
    panicked,     \* panic() was called: the system has halted
    port_calls,   \* history: the ahci_port_do calls made, in order
    disk_first,   \* the head of the registry (a disk_t address or NULL)
    heap,         \* the contents of the disk_t blocks, by address
    allocated,    \* the disk_t blocks vmm_alloc has handed out
    fault,        \* a null pointer was used, or a block not handed out freed
    order,        \* history: the registered disks in registration order
    rlast,        \* history: the last registry or null-disk operation
    it_pc,        \* position of a caller iterating with disk_next
    visited,      \* the disks disk_next returned to that caller since the
                  \* registry last changed; the last one is the one it holds
    it_changed    \* history: the registry changed since that caller began

pvars == <<available, parts, part_count, vfs, pc, trav, pre, running, nadd,
           last_add, scan, log, kept>>

iovars == <<io_pc, sector_size, op, lba, size, buf, rem, buf_offset, cb, ret,
            media, req, raw_calls, copies, controller, panicked,
            port_calls>>

rvars == <<disk_first, heap, allocated, fault, order, rlast, it_pc, visited,
           it_changed>>

-----------------------------------------------------------------------------
(* Bounds *)

MaxParts     == 3    \* partition objects the heap can hold at once
MaxKey       == 2    \* the tables name the regions KeyOf(0..MaxKey)
MaxInitParts == 2    \* partitions the disk owns in the initial state
MaxReport    == 2    \* disk_part_add calls by the parsers of one scan

NULL == 0
PartIds == 1..MaxParts

\* the regions (start, size) a partition table can name:
\* (0, 1), (0, 2), (1, 1), (1, 2), (2, 1), ...
KeyOf(n) == [start |-> n \div 2, size |-> 1 + (n % 2)]
Keys == {KeyOf(n) : n \in 0..MaxKey}

VFS_TYPE_DISK == "VFS_TYPE_DISK"

\* #ifdef CONFIG_CORE_GPT: the macro over the builds, defined or not; only a
\* build that defines it compiles the call of gpt_load
CONFIG_CORE_GPT == BOOLEAN

-----------------------------------------------------------------------------
(* Lists *)

Ids(ps) == {ps[i].id : i \in 1..Len(ps)}

IndexOf(ps, id) == CHOOSE i \in 1..Len(ps) : ps[i].id = id

\* part->next
NextOf(ps, id) ==
    LET i == IndexOf(ps, id) IN
    IF i < Len(ps) THEN ps[i + 1].id ELSE NULL

\* disk->parts
HeadOf(ps) == IF ps = << >> THEN NULL ELSE ps[1].id

RemoveAt(s, i) == SubSeq(s, 1, i - 1) \o SubSeq(s, i + 1, Len(s))

\* disk_part_match(p1, _)
disk_part_match(p1, start, psize) == p1.start = start /\ p1.size = psize

\* slist_find(&disk->parts, &new, disk_part_match, NULL, disk_part_t)
slist_find(ps, start, psize) ==
    LET hits == {i \in 1..Len(ps) : disk_part_match(ps[i], start, psize)} IN
    IF hits = {} THEN NULL
    ELSE ps[CHOOSE i \in hits : \A j \in hits : i <= j].id

\* slist_add(&disk->parts, new, disk_part_t)
slist_add(ps, new) == Append(ps, new)

-----------------------------------------------------------------------------
(* Mount registry *)

\* vfs_register(type, data)
vfs_register(v, type, data) == Append(v, [type |-> type, type_data |-> data])

\* vfs_unregister(cur): cur is the position of the entry
vfs_unregister(v, cur) == RemoveAt(v, cur)

\* __disk_part_find_vfs: the first entry of the disk kind that points at part
__disk_part_find_vfs(v, part) ==
    LET hits == {i \in 1..Len(v) :
                    v[i].type = VFS_TYPE_DISK /\ v[i].type_data = part} IN
    IF hits = {} THEN NULL ELSE CHOOSE i \in hits : \A j \in hits : i <= j

\* number of disk-kind registrations that point at part
Mounts(v, part) ==
    Cardinality({i \in 1..Len(v) :
                    v[i].type = VFS_TYPE_DISK /\ v[i].type_data = part})

-----------------------------------------------------------------------------
(* disk_part_add, __disk_part_block, disk_part_clear *)

\* vmm_alloc(sizeof(disk_part_t)): the addresses it can return
vmm_alloc(ps) ==
    LET free == PartIds \ Ids(ps) IN
    IF free = {} THEN {NULL}
    ELSE {NULL, CHOOSE id \in free : \A other \in free : id <= other}

\* disk_part_add with line 54 moved before the lookup
disk_part_add_counts_all(ps, cnt, start, psize, mem) ==
    LET new == slist_find(ps, start, psize) IN
    IF NULL # new
    THEN [parts |-> ps, part_count |-> cnt + 1, ret |-> new]
    ELSE IF NULL = mem
    THEN [parts |-> ps, part_count |-> cnt + 1, ret |-> NULL]
    ELSE [parts |-> slist_add(ps, [id |-> mem, start |-> start,
                                   size |-> psize, available |-> FALSE]),
          part_count |-> cnt + 1,
          ret |-> mem]

\* disk_part_add without the lookup of lines 38-41
disk_part_add_nofind(ps, cnt, start, psize, mem) ==
    IF NULL = mem
    THEN [parts |-> ps, part_count |-> cnt, ret |-> NULL]
    ELSE [parts |-> slist_add(ps, [id |-> mem, start |-> start,
                                   size |-> psize, available |-> FALSE]),
          part_count |-> cnt + 1,
          ret |-> mem]

\* disk_part_add(disk, start, size); mem is what vmm_alloc returns if called
disk_part_add(ps, cnt, start, psize, mem) ==
    LET new == slist_find(ps, start, psize) IN
    IF NULL # new
    THEN [parts |-> ps, part_count |-> cnt, ret |-> new]
    ELSE IF NULL = mem
    THEN [parts |-> ps, part_count |-> cnt, ret |-> NULL]
    ELSE [parts |-> slist_add(ps, [id |-> mem, start |-> start,
                                   size |-> psize, available |-> FALSE]),
          part_count |-> cnt + 1,
          ret |-> mem]

\* __disk_part_block that starts at the second entry
__disk_part_block_skip(ps) ==
    [i \in 1..Len(ps) |-> IF i = 1 THEN ps[i]
                          ELSE [ps[i] EXCEPT !.available = FALSE]]

\* __disk_part_block(disk)
__disk_part_block(ps) ==
    [i \in 1..Len(ps) |-> [ps[i] EXCEPT !.available = FALSE]]

\* the loop body without line 101
disk_part_clear_iter_nodec(ps, cnt, v, t, p) ==
    LET i   == IndexOf(ps, t)
        cur == __disk_part_find_vfs(v, t)
    IN
    IF ps[i].available
    THEN [parts |-> ps, part_count |-> cnt,
          vfs |-> IF NULL = cur THEN vfs_register(v, VFS_TYPE_DISK, t) ELSE v,
          trav |-> NextOf(ps, t), pre |-> t,
          events |-> IF NULL = cur THEN <<[ev |-> "register", part |-> t]>>
                     ELSE << >>,
          survived |-> TRUE]
    ELSE [parts |-> IF NULL = p
                    THEN SubSeq(ps, i + 1, Len(ps))
                    ELSE SubSeq(ps, 1, IndexOf(ps, p))
                             \o SubSeq(ps, i + 1, Len(ps)),
          part_count |-> cnt,
          vfs |-> IF NULL # cur THEN vfs_unregister(v, cur) ELSE v,
          trav |-> NextOf(ps, t), pre |-> p,
          events |-> (IF NULL # cur
                      THEN <<[ev |-> "unregister", part |-> t]>> ELSE << >>)
                     \o <<[ev |-> "free", part |-> t]>>,
          survived |-> FALSE]

\* the loop body with the test of line 91 inverted
disk_part_clear_iter_noreg(ps, cnt, v, t, p) ==
    LET i   == IndexOf(ps, t)
        cur == __disk_part_find_vfs(v, t)
    IN
    IF ps[i].available
    THEN [parts |-> ps, part_count |-> cnt,
          vfs |-> IF NULL # cur THEN vfs_register(v, VFS_TYPE_DISK, t) ELSE v,
          trav |-> NextOf(ps, t), pre |-> t,
          events |-> IF NULL # cur THEN <<[ev |-> "register", part |-> t]>>
                     ELSE << >>,
          survived |-> TRUE]
    ELSE [parts |-> IF NULL = p
                    THEN SubSeq(ps, i + 1, Len(ps))
                    ELSE SubSeq(ps, 1, IndexOf(ps, p))
                             \o SubSeq(ps, i + 1, Len(ps)),
          part_count |-> cnt - 1,
          vfs |-> IF NULL # cur THEN vfs_unregister(v, cur) ELSE v,
          trav |-> NextOf(ps, t), pre |-> p,
          events |-> (IF NULL # cur
                      THEN <<[ev |-> "unregister", part |-> t]>> ELSE << >>)
                     \o <<[ev |-> "free", part |-> t]>>,
          survived |-> FALSE]

\* the loop with the unlink of lines 103-108 taken whatever pre is
disk_part_clear_iter_head_only(ps, cnt, v, t, p) ==
    LET i   == IndexOf(ps, t)
        cur == __disk_part_find_vfs(v, t)
    IN
    IF ps[i].available
    THEN [parts |-> ps, part_count |-> cnt,
          vfs |-> IF NULL = cur THEN vfs_register(v, VFS_TYPE_DISK, t) ELSE v,
          trav |-> NextOf(ps, t), pre |-> t,
          events |-> IF NULL = cur THEN <<[ev |-> "register", part |-> t]>>
                     ELSE << >>,
          survived |-> TRUE]
    ELSE [parts |-> SubSeq(ps, i + 1, Len(ps)),
          part_count |-> cnt - 1,
          vfs |-> IF NULL # cur THEN vfs_unregister(v, cur) ELSE v,
          trav |-> NextOf(ps, t), pre |-> p,
          events |-> (IF NULL # cur
                      THEN <<[ev |-> "unregister", part |-> t]>> ELSE << >>)
                     \o <<[ev |-> "free", part |-> t]>>,
          survived |-> FALSE]

\* One iteration of the while loop of disk_part_clear, trav # NULL.
disk_part_clear_iter(ps, cnt, v, t, p) ==
    LET i   == IndexOf(ps, t)
        cur == __disk_part_find_vfs(v, t)
    IN
    IF ps[i].available
    THEN [parts |-> ps, part_count |-> cnt,
          vfs |-> IF NULL = cur THEN vfs_register(v, VFS_TYPE_DISK, t) ELSE v,
          trav |-> NextOf(ps, t), pre |-> t,
          events |-> IF NULL = cur THEN <<[ev |-> "register", part |-> t]>>
                     ELSE << >>,
          survived |-> TRUE]
    ELSE [parts |-> IF NULL = p
                    THEN SubSeq(ps, i + 1, Len(ps))
                    ELSE SubSeq(ps, 1, IndexOf(ps, p))
                             \o SubSeq(ps, i + 1, Len(ps)),
          part_count |-> cnt - 1,
          vfs |-> IF NULL # cur THEN vfs_unregister(v, cur) ELSE v,
          trav |-> NextOf(ps, t), pre |-> p,
          events |-> (IF NULL # cur
                      THEN <<[ev |-> "unregister", part |-> t]>> ELSE << >>)
                     \o <<[ev |-> "free", part |-> t]>>,
          survived |-> FALSE]

-----------------------------------------------------------------------------
(* History records *)

NoAdd == [call |-> FALSE, start |-> 0, size |-> 0, ret |-> NULL,
          parts |-> << >>, part_count |-> 0]

NoScan == [old_parts |-> << >>, old_vfs |-> << >>, info_ok |-> FALSE,
           winner |-> "none", reported |-> {}, ret |-> FALSE]

AddRecord(start, psize, r) ==
    [call |-> TRUE, start |-> start, size |-> psize, ret |-> r.ret,
     parts |-> parts, part_count |-> part_count]

-----------------------------------------------------------------------------
(* Initial states: a disk between operations *)

\* the partition lists of n entries with pairwise different (start, size);
\* the code compares regions for equality only, so the lists whose regions
\* come in the order of Keys stand for all of them
InitLists(n) ==
    {[i \in 1..n |-> [id |-> i, start |-> KeyOf(k[i]).start,
                      size |-> KeyOf(k[i]).size, available |-> a[i]]] :
        k \in {f \in [1..n -> 0..MaxKey] :
                  \A i, j \in 1..n : i < j => f[i] < f[j]},
        a \in [1..n -> BOOLEAN]}

\* one registration for each partition of the set m, in list order
InitVfs(n, m) ==
    LET F[i \in 0..n] ==
            IF i = 0 THEN << >>
            ELSE IF i \in m THEN vfs_register(F[i - 1], VFS_TYPE_DISK, i)
            ELSE F[i - 1]
    IN F[n]

PInit ==
    /\ available \in BOOLEAN
    /\ \E n \in 0..MaxInitParts :
          /\ parts \in InitLists(n)
          /\ part_count = n
          /\ \E m \in SUBSET (1..n) : vfs = InitVfs(n, m) /\ kept = m
    /\ pc = "idle"
    /\ trav = NULL
    /\ pre = NULL
    /\ running = "none"
    /\ nadd = 0
    /\ last_add = NoAdd
    /\ scan = NoScan
    /\ log = << >>

-----------------------------------------------------------------------------
(* Operations *)

\* a caller other than disk_scan calls disk_part_add(disk, start, size)
PartAddCall(start, psize, mem) ==
    /\ pc = "idle"
    /\ UNCHANGED <<iovars, rvars>>
    /\ mem \in vmm_alloc(parts)
    /\ LET r == disk_part_add(parts, part_count, start, psize, mem) IN
         /\ parts' = r.parts
         /\ part_count' = r.part_count
         /\ last_add' = AddRecord(start, psize, r)
    /\ running' = "disk_part_add"
    /\ scan' = NoScan
    /\ log' = << >>
    /\ UNCHANGED <<available, vfs, pc, trav, pre, nadd, kept>>

\* disk_scan without line 118
ScanBegin_keeps_available ==
    /\ pc = "idle"
    /\ UNCHANGED <<iovars, rvars>>
    /\ available' = available
    /\ parts' = __disk_part_block(parts)
    /\ pc' = "info"
    /\ running' = "disk_scan"
    /\ nadd' = 0
    /\ last_add' = NoAdd
    /\ scan' = [NoScan EXCEPT !.old_parts = parts, !.old_vfs = vfs]
    /\ log' = << >>
    /\ UNCHANGED <<part_count, vfs, trav, pre, kept>>

\* disk_scan, lines 118-119
ScanBegin ==
    /\ pc = "idle"
    /\ UNCHANGED <<iovars, rvars>>
    /\ available' = FALSE
    /\ parts' = __disk_part_block(parts)
    /\ pc' = "info"
    /\ running' = "disk_scan"
    /\ nadd' = 0
    /\ last_add' = NoAdd
    /\ scan' = [NoScan EXCEPT !.old_parts = parts, !.old_vfs = vfs]
    /\ log' = << >>
    /\ UNCHANGED <<part_count, vfs, trav, pre, kept>>

\* disk_scan, lines 121-126: ok is what the controller answers to the query,
\* gpt whether the build defines CONFIG_CORE_GPT. A build without it is, from
\* here on, in the state of a build with it whose gpt_load has found nothing
ScanInfo(ok, gpt) ==
    /\ pc = "info"
    /\ UNCHANGED <<iovars, rvars>>
    /\ IF ~ok
       THEN /\ pc' = "idle"
            /\ scan' = [scan EXCEPT !.ret = FALSE]
       ELSE /\ pc' = IF gpt THEN "gpt" ELSE "mbr"
            /\ scan' = [scan EXCEPT !.info_ok = TRUE]
    /\ UNCHANGED <<available, parts, part_count, vfs, trav, pre, running, nadd,
                   last_add, log, kept>>

\* gpt_load / mbr_load reports a partition: disk_part_add(disk, start, size)
ParserAdd(start, psize, mem) ==
    /\ pc \in {"gpt", "mbr"}
    /\ UNCHANGED <<iovars, rvars>>
    /\ nadd < MaxReport
    /\ mem \in vmm_alloc(parts)
    /\ LET r == disk_part_add(parts, part_count, start, psize, mem) IN
         /\ parts' = r.parts
         /\ part_count' = r.part_count
         /\ last_add' = AddRecord(start, psize, r)
    /\ nadd' = nadd + 1
    /\ scan' = [scan EXCEPT !.reported = @ \cup {<<start, psize>>}]
    /\ UNCHANGED <<available, vfs, pc, trav, pre, running, log, kept>>

\* disk_scan, lines 128-140: gpt_load / mbr_load returns ok
ParserReturn(ok) ==
    /\ pc \in {"gpt", "mbr"}
    /\ UNCHANGED <<iovars, rvars>>
    /\ IF ok
       THEN /\ pc' = "clear"
            /\ trav' = HeadOf(parts)
            /\ scan' = [scan EXCEPT !.winner = pc]
       ELSE /\ pc' = IF pc = "gpt" THEN "mbr" ELSE "idle"
            /\ trav' = trav
            /\ scan' = [scan EXCEPT !.ret = FALSE]
    /\ pre' = NULL
    /\ last_add' = NoAdd
    /\ UNCHANGED <<available, parts, part_count, vfs, running, nadd, log, kept>>

\* a caller other than disk_scan calls disk_part_clear(disk), line 84
ClearCall ==
    /\ pc = "idle"
    /\ UNCHANGED <<iovars, rvars>>
    /\ pc' = "clear"
    /\ trav' = HeadOf(parts)
    /\ pre' = NULL
    /\ running' = "disk_part_clear"
    /\ last_add' = NoAdd
    /\ scan' = NoScan
    /\ log' = << >>
    /\ UNCHANGED <<available, parts, part_count, vfs, nadd, kept>>

\* disk_part_clear, lines 87-113: one iteration of the loop
ClearStep ==
    /\ pc = "clear"
    /\ UNCHANGED <<iovars, rvars>>
    /\ trav # NULL
    /\ LET r == disk_part_clear_iter(parts, part_count, vfs, trav, pre) IN
         /\ parts' = r.parts
         /\ part_count' = r.part_count
         /\ vfs' = r.vfs
         /\ trav' = r.trav
         /\ pre' = r.pre
         /\ log' = log \o r.events
         /\ kept' = IF r.survived THEN kept \cup {trav} ELSE kept \ {trav}
    /\ UNCHANGED <<available, pc, running, nadd, last_add, scan>>

\* disk_part_clear, line 114: the loop is over
ClearExit ==
    /\ pc = "clear"
    /\ UNCHANGED <<iovars, rvars>>
    /\ trav = NULL
    /\ pc' = IF running = "disk_scan" THEN "finish" ELSE "idle"
    /\ pre' = NULL
    /\ UNCHANGED <<available, parts, part_count, vfs, trav, running, nadd,
                   last_add, scan, log, kept>>

\* disk_scan, lines 144-145
ScanFinish ==
    /\ pc = "finish"
    /\ UNCHANGED <<iovars, rvars>>
    /\ available' = TRUE
    /\ scan' = [scan EXCEPT !.ret = TRUE]
    /\ pc' = "idle"
    /\ UNCHANGED <<parts, part_count, vfs, trav, pre, running, nadd, last_add,
                   log, kept>>

PNext ==
    \/ \E k \in Keys, mem \in PartIds \cup {NULL} :
          PartAddCall(k.start, k.size, mem)
    \/ ScanBegin
    \/ \E ok \in BOOLEAN, gpt \in CONFIG_CORE_GPT : ScanInfo(ok, gpt)
    \/ \E k \in Keys, mem \in PartIds \cup {NULL} :
          ParserAdd(k.start, k.size, mem)
    \/ \E ok \in BOOLEAN : ParserReturn(ok)
    \/ ClearCall
    \/ ClearStep
    \/ ClearExit
    \/ ScanFinish

-----------------------------------------------------------------------------
(* Byte-to-sector translation: __disk_do_raw, __disk_do_size *)

MaxSectorSize == 3   \* sector sizes are 2..MaxSectorSize bytes
MaxReqSize    == 7   \* transfer sizes are 0..MaxReqSize bytes
MaxLba        == 1   \* transfers start at sector 0..MaxLba
MaxDisks      == 3   \* disk_t blocks the heap can hold at once

DISK_OP_READ  == "DISK_OP_READ"
DISK_OP_WRITE == "DISK_OP_WRITE"
DISK_OP_INFO  == "DISK_OP_INFO"

DISK_CONTROLLER_AHCI == "DISK_CONTROLLER_AHCI"

\* the controller kinds a disk_t can hold: the registered one and another
Controllers == {DISK_CONTROLLER_AHCI, "DISK_CONTROLLER_UNKNOWN"}

DISK_DEFAULT_SECTOR_SIZE == 512

SectorSizes == 2..MaxSectorSize
NumSectors  == MaxLba + (MaxReqSize \div 2) + 1

\* bytes an uninitialized array can hold
Garbage == {200, 201}

\* div_floor(size, disk->sector_size)
div_floor(a, b) == a \div b

\* the device before the transfer: every byte names its sector and its place
InitMedia(ss) == [s \in 0..(NumSectors - 1) |-> [j \in 1..ss |-> 10 * (s + 1) + j]]

\* the caller's memory before the transfer: every byte names its index; the
\* size bytes of the request are followed by sector_size bytes that are not
\* part of it
InitBuf(n) == [i \in 1..n |-> 100 + i]

\* the bytes of count sectors from sector l on
SectorData(m, ss, l, count) ==
    [i \in 1..(count * ss) |-> m[l + ((i - 1) \div ss)][((i - 1) % ss) + 1]]

\* ahci_port_do(data, op, lba, sector_count, mem + off): a read fills count
\* sectors of memory from the device, a write stores them, an info query
\* moves no sector, a failed call (ok = FALSE) transfers nothing
ahci_port_do(m, ss, o, l, count, mem, off, ok) ==
    IF ~ok THEN [media |-> m, mem |-> mem, ret |-> FALSE]
    ELSE IF o = DISK_OP_READ
    THEN [media |-> m,
          mem |-> [i \in 1..Len(mem) |->
                     IF off < i /\ i <= off + count * ss
                     THEN SectorData(m, ss, l, count)[i - off] ELSE mem[i]],
          ret |-> TRUE]
    ELSE IF o = DISK_OP_WRITE
    THEN [media |-> [s \in DOMAIN m |->
                       IF l <= s /\ s < l + count
                       THEN SubSeq(mem, off + (s - l) * ss + 1,
                                   off + (s - l + 1) * ss)
                       ELSE m[s]],
          mem |-> mem,
          ret |-> TRUE]
    ELSE [media |-> m, mem |-> mem, ret |-> TRUE]

\* the record of one ahci_port_do call: its arguments, its result and what
\* __disk_do_raw returned for it
PortCall(o, l, count, tgt, off, result, returned) ==
    [op |-> o, lba |-> l, sector_count |-> count, target |-> tgt,
     offset |-> off, ret |-> result, returned |-> returned]

\* __disk_do_raw without the switch on disk->controller
__disk_do_raw_any_controller(c, m, ss, o, l, count, mem, tgt, off, ok) ==
    LET a == ahci_port_do(m, ss, o, l, count, mem, off, ok) IN
    [media |-> a.media, mem |-> a.mem, ret |-> a.ret, panic |-> FALSE,
     port |-> <<PortCall(o, l, count, tgt, off, a.ret, a.ret)>>]

\* __disk_do_raw(disk, op, lba, sector_count, mem + off): tgt names the memory
\* the pointer points into; panic() halts the system and does not return
__disk_do_raw(c, m, ss, o, l, count, mem, tgt, off, ok) ==
    IF c = DISK_CONTROLLER_AHCI
    THEN LET a == ahci_port_do(m, ss, o, l, count, mem, off, ok) IN
         [media |-> a.media, mem |-> a.mem, ret |-> a.ret, panic |-> FALSE,
          port |-> <<PortCall(o, l, count, tgt, off, a.ret, a.ret)>>]
    ELSE [media |-> m, mem |-> mem, ret |-> FALSE, panic |-> TRUE,
          port |-> << >>]

\* memcpy(buf + buf_offset, cb, disk->sector_size): the whole scratch buffer
memcpy_sector(dst, off, src, n) ==
    [i \in 1..Len(dst) |->
        IF off < i /\ i <= off + Len(src) THEN src[i - off] ELSE dst[i]]

\* memcpy(dst + off, src, n)
memcpy(dst, off, src, n) ==
    [i \in 1..Len(dst) |-> IF off < i /\ i <= off + n THEN src[i - off] ELSE dst[i]]

RawCall(o, l, count, target, off, data, ok) ==
    [op |-> o, lba |-> l, sector_count |-> count, target |-> target,
     offset |-> off, data |-> data, ok |-> ok]

\* the calls modelled: reads and writes of 0..MaxReqSize bytes, and the info
\* query of disk_scan, disk_do(disk, DISK_OP_INFO, 0, 0, NULL)
Requests ==
    [op : {DISK_OP_READ, DISK_OP_WRITE}, lba : 0..MaxLba, size : 0..MaxReqSize]
        \cup {[op |-> DISK_OP_INFO, lba |-> 0, size |-> 0]}

IOInit ==
    /\ io_pc = "entry"
    /\ sector_size \in SectorSizes
    /\ controller \in Controllers
    /\ \E r \in Requests :
          /\ op = r.op
          /\ lba = r.lba
          /\ size = r.size
          /\ buf = IF r.op = DISK_OP_INFO THEN << >>
                   ELSE InitBuf(r.size + sector_size)
    /\ rem = 0
    /\ buf_offset = 0
    /\ cb = << >>
    /\ ret = FALSE
    /\ media = InitMedia(sector_size)
    /\ req = [op |-> op, lba |-> lba, size |-> size, buf |-> buf]
    /\ raw_calls = << >>
    /\ copies = << >>
    /\ panicked = FALSE
    /\ port_calls = << >>

\* no transfer is running
IOIdle ==
    /\ io_pc = "idle"
    /\ sector_size = DISK_DEFAULT_SECTOR_SIZE
    /\ controller = DISK_CONTROLLER_AHCI
    /\ op = DISK_OP_READ
    /\ lba = 0
    /\ size = 0
    /\ buf = << >>
    /\ rem = 0
    /\ buf_offset = 0
    /\ cb = << >>
    /\ ret = FALSE
    /\ media = << >>
    /\ req = [op |-> op, lba |-> 0, size |-> 0, buf |-> << >>]
    /\ raw_calls = << >>
    /\ copies = << >>
    /\ panicked = FALSE
    /\ port_calls = << >>

\* __disk_do_size with the test of line 220 made before the test of line 217
DoSizeEntry_small_first(ok) ==
    /\ io_pc = "entry"
    /\ UNCHANGED <<pvars, rvars>>
    /\ rem' = size % sector_size
    /\ IF size < sector_size
       THEN /\ io_pc' = "do_copy"
            /\ UNCHANGED <<media, buf, ret, raw_calls, port_calls, panicked>>
       ELSE IF rem' = 0
       THEN LET sector_count == div_floor(size, sector_size)
                r == __disk_do_raw(controller, media, sector_size, op, lba,
                                   sector_count, buf, "buf", 0, ok)
            IN /\ media' = r.media
               /\ buf' = r.mem
               /\ ret' = IF r.panic THEN ret ELSE r.ret
               /\ raw_calls' = Append(raw_calls,
                      RawCall(op, lba, sector_count, "buf", 0,
                              SubSeq(r.mem, 1, sector_count * sector_size), ok))
               /\ port_calls' = port_calls \o r.port
               /\ panicked' = r.panic
               /\ io_pc' = IF r.panic THEN "halt" ELSE "done"
       ELSE /\ io_pc' = "loop"
            /\ UNCHANGED <<media, buf, ret, raw_calls, port_calls, panicked>>
    /\ UNCHANGED <<sector_size, op, lba, size, buf_offset, cb, req, copies,
                   controller>>

\* __disk_do_size, lines 215-221; ok is the result of the controller call
DoSizeEntry(ok) ==
    /\ io_pc = "entry"
    /\ UNCHANGED <<pvars, rvars>>
    /\ rem' = size % sector_size
    /\ IF rem' = 0
       THEN LET sector_count == div_floor(size, sector_size)
                r == __disk_do_raw(controller, media, sector_size, op, lba,
                                   sector_count, buf, "buf", 0, ok)
            IN /\ media' = r.media
               /\ buf' = r.mem
               /\ ret' = IF r.panic THEN ret ELSE r.ret
               /\ raw_calls' = Append(raw_calls,
                      RawCall(op, lba, sector_count, "buf", 0,
                              SubSeq(r.mem, 1, sector_count * sector_size), ok))
               /\ port_calls' = port_calls \o r.port
               /\ panicked' = r.panic
               /\ io_pc' = IF r.panic THEN "halt" ELSE "done"
       ELSE /\ io_pc' = IF size < sector_size THEN "do_copy" ELSE "loop"
            /\ UNCHANGED <<media, buf, ret, raw_calls, port_calls, panicked>>
    /\ UNCHANGED <<sector_size, op, lba, size, buf_offset, cb, req, copies,
                   controller>>

\* the loop without line 227
DoSizeLoop_no_advance(ok) ==
    /\ io_pc = "loop"
    /\ UNCHANGED <<pvars, rvars>>
    /\ IF size # rem
       THEN LET r == __disk_do_raw(controller, media, sector_size, op, lba, 1,
                                   buf, "buf", buf_offset, ok)
            IN /\ media' = r.media
               /\ buf' = r.mem
               /\ raw_calls' = Append(raw_calls,
                      RawCall(op, lba, 1, "buf", buf_offset,
                              SubSeq(r.mem, buf_offset + 1,
                                     buf_offset + sector_size), ok))
               /\ port_calls' = port_calls \o r.port
               /\ panicked' = r.panic
               /\ IF r.panic
                  THEN /\ io_pc' = "halt"
                       /\ UNCHANGED <<ret, size, buf_offset>>
                  ELSE IF ~r.ret
                  THEN /\ ret' = FALSE
                       /\ io_pc' = "done"
                       /\ UNCHANGED <<size, buf_offset>>
                  ELSE /\ size' = size - sector_size
                       /\ buf_offset' = buf_offset
                       /\ UNCHANGED <<ret, io_pc>>
       ELSE /\ io_pc' = "do_copy"
            /\ UNCHANGED <<media, buf, raw_calls, ret, size, buf_offset,
                           port_calls, panicked>>
    /\ UNCHANGED <<sector_size, op, lba, rem, cb, req, copies, controller>>

\* __disk_do_size, lines 223-228: the loop test and one iteration
DoSizeLoop(ok) ==
    /\ io_pc = "loop"
    /\ UNCHANGED <<pvars, rvars>>
    /\ IF size # rem
       THEN LET r == __disk_do_raw(controller, media, sector_size, op, lba, 1,
                                   buf, "buf", buf_offset, ok)
            IN /\ media' = r.media
               /\ buf' = r.mem
               /\ raw_calls' = Append(raw_calls,
                      RawCall(op, lba, 1, "buf", buf_offset,
                              SubSeq(r.mem, buf_offset + 1,
                                     buf_offset + sector_size), ok))
               /\ port_calls' = port_calls \o r.port
               /\ panicked' = r.panic
               /\ IF r.panic
                  THEN /\ io_pc' = "halt"
                       /\ UNCHANGED <<ret, size, buf_offset>>
                  ELSE IF ~r.ret
                  THEN /\ ret' = FALSE
                       /\ io_pc' = "done"
                       /\ UNCHANGED <<size, buf_offset>>
                  ELSE /\ size' = size - sector_size
                       /\ buf_offset' = buf_offset + sector_size
                       /\ UNCHANGED <<ret, io_pc>>
       ELSE /\ io_pc' = "do_copy"
            /\ UNCHANGED <<media, buf, raw_calls, ret, size, buf_offset,
                           port_calls, panicked>>
    /\ UNCHANGED <<sector_size, op, lba, rem, cb, req, copies, controller>>

\* __disk_do_size, lines 230-240; uninit is what the array cb holds at line 234
DoSizeCopy(uninit, ok) ==
    /\ io_pc = "do_copy"
    /\ UNCHANGED <<pvars, rvars>>
    /\ IF rem = 0
       THEN /\ ret' = TRUE
            /\ io_pc' = "done"
            /\ UNCHANGED <<media, buf, cb, raw_calls, copies, port_calls,
                           panicked>>
       ELSE LET r == __disk_do_raw(controller, media, sector_size, op, lba, 1,
                                   uninit, "cb", 0, ok)
            IN /\ media' = r.media
               /\ cb' = r.mem
               /\ raw_calls' = Append(raw_calls,
                      RawCall(op, lba, 1, "cb", 0, r.mem, ok))
               /\ port_calls' = port_calls \o r.port
               /\ panicked' = r.panic
               /\ IF r.panic
                  THEN /\ io_pc' = "halt"
                       /\ UNCHANGED <<ret, buf, copies>>
                  ELSE /\ ret' = r.ret
                       /\ buf' = memcpy(buf, buf_offset, r.mem, rem)
                       /\ copies' = Append(copies,
                              [to |-> "buf", at |-> buf_offset, from |-> "cb",
                               n |-> rem])
                       /\ io_pc' = "done"
    /\ UNCHANGED <<sector_size, op, lba, size, rem, buf_offset, req,
                   controller>>

IONext ==
    \/ \E ok \in BOOLEAN : DoSizeEntry(ok)
    \/ \E ok \in BOOLEAN : DoSizeLoop(ok)
    \/ \E uninit \in [1..sector_size -> Garbage], ok \in BOOLEAN :
          DoSizeCopy(uninit, ok)

-----------------------------------------------------------------------------
(* The registry: disk_add, disk_remove, disk_next *)

DiskIds == 1..MaxDisks

\* the values of the data argument of disk_add: NULL or a controller handle
Handles == {NULL, 1}

\* what a block of the heap can hold before it is first handed out
BlockGarbage ==
    {[next |-> NULL, controller |-> DISK_CONTROLLER_AHCI, data |-> NULL,
      sector_size |-> 0, parts |-> NULL, part_count |-> 0,
      available |-> FALSE],
     [next |-> 1, controller |-> "DISK_CONTROLLER_UNKNOWN", data |-> 1,
      sector_size |-> 1, parts |-> 1, part_count |-> 1, available |-> TRUE]}

\* vmm_alloc(sizeof(disk_t)): the addresses it can return
vmm_alloc_disk(al) ==
    LET free == DiskIds \ al IN
    IF free = {} THEN {NULL}
    ELSE {NULL, CHOOSE d \in free : \A other \in free : d <= other}

\* bzero(new, sizeof(disk_t)): every field is zero; the controller kind of
\* value 0 is DISK_CONTROLLER_AHCI
bzero(b) ==
    [next |-> NULL, controller |-> DISK_CONTROLLER_AHCI, data |-> NULL,
     sector_size |-> 0, parts |-> NULL, part_count |-> 0,
     available |-> FALSE]

\* the disks reached from d by following next, at most fuel of them
RECURSIVE Walk(_, _, _)
Walk(d, h, fuel) ==
    IF d = NULL \/ fuel = 0 THEN << >>
    ELSE <<d>> \o Walk(h[d].next, h, fuel - 1)

\* the registry as a sequence, head first
Chain(first, h) == Walk(first, h, MaxDisks)

\* slist_add(&disk_first, new, disk_t): link new after the last entry
slist_add_disk(first, h, new) ==
    IF first = NULL THEN [first |-> new, heap |-> h]
    ELSE LET c == Chain(first, h) IN
         [first |-> first, heap |-> [h EXCEPT ![c[Len(c)]].next = new]]

\* slist_del(&disk_first, disk, disk_t): unlink the entry that is disk, if any
slist_del_disk(first, h, d) ==
    LET c == Chain(first, h) IN
    IF first = d THEN [first |-> h[d].next, heap |-> h]
    ELSE IF \E i \in 2..Len(c) : c[i] = d
    THEN LET i == CHOOSE j \in 2..Len(c) : c[j] = d IN
         [first |-> first, heap |-> [h EXCEPT ![c[i - 1]].next = h[d].next]]
    ELSE [first |-> first, heap |-> h]

\* disk_add without line 153
disk_add_no_bzero(first, h, c, data, mem) ==
    IF NULL = data
    THEN [first |-> first, heap |-> h, ret |-> NULL, fault |-> "none"]
    ELSE IF NULL = mem
    THEN [first |-> first, heap |-> h, ret |-> NULL, fault |-> "null_deref"]
    ELSE LET w == [h EXCEPT ![mem].controller = c, ![mem].data = data,
                            ![mem].sector_size = DISK_DEFAULT_SECTOR_SIZE]
             l == slist_add_disk(first, w, mem)
         IN [first |-> l.first, heap |-> l.heap, ret |-> mem,
             fault |-> "none"]

\* disk_add(controller, data); mem is what vmm_alloc returns at line 152.
\* Line 153 writes through new without a test: with mem = NULL that is a
\* write through a null pointer, after which nothing is modelled.
disk_add(first, h, c, data, mem) ==
    IF NULL = data
    THEN [first |-> first, heap |-> h, ret |-> NULL, fault |-> "none"]
    ELSE IF NULL = mem
    THEN [first |-> first, heap |-> h, ret |-> NULL, fault |-> "null_deref"]
    ELSE LET z == [h EXCEPT ![mem] = bzero(@)]
             w == [z EXCEPT ![mem].controller = c, ![mem].data = data,
                            ![mem].sector_size = DISK_DEFAULT_SECTOR_SIZE]
             l == slist_add_disk(first, w, mem)
         IN [first |-> l.first, heap |-> l.heap, ret |-> mem,
             fault |-> "none"]

\* vmm_free(disk): what the block can hold afterwards, what it held or
\* whatever the allocator leaves in it
vmm_free_disk(h, d) == {h[d]} \cup BlockGarbage

\* disk_remove(disk): freed is the address passed to vmm_free, NULL if none,
\* left is what vmm_free leaves in the block; freeing a block that vmm_alloc
\* has not handed out is a fault
disk_remove(first, h, al, d, left) ==
    IF NULL = d \/ NULL = first
    THEN [first |-> first, heap |-> h, allocated |-> al, freed |-> NULL,
          fault |-> "none"]
    ELSE LET l == slist_del_disk(first, h, d) IN
         [first |-> l.first, heap |-> [l.heap EXCEPT ![d] = left],
          allocated |-> al \ {d}, freed |-> d,
          fault |-> IF d \in al THEN "none" ELSE "bad_free"]

\* disk_part_next(disk, part), ps the list part is in (the list of disk, when
\* disk is not NULL): with part = NULL it reads disk->parts
disk_part_next(d, ps, part) ==
    IF NULL = part
    THEN IF NULL = d THEN [ret |-> NULL, fault |-> "null_deref"]
         ELSE [ret |-> HeadOf(ps), fault |-> "none"]
    ELSE [ret |-> NextOf(ps, part), fault |-> "none"]

\* disk_next(disk)
disk_next(first, h, d) == IF NULL = d THEN first ELSE h[d].next

\* the record of one operation: its arguments and result, whether it wrote
\* to the registry or the heap, and the registration order it started from
Op(name, d, data, alloc_null, r, freed, wrote) ==
    [op |-> name, disk |-> d, data |-> data, alloc_null |-> alloc_null,
     ret |-> r, freed |-> freed, wrote |-> wrote, old_order |-> order]

NoOp == [op |-> "none", disk |-> NULL, data |-> NULL, alloc_null |-> FALSE,
         ret |-> NULL, freed |-> NULL, wrote |-> FALSE, old_order |-> << >>]

\* the registry of line 21, over a heap of blocks never handed out
RInit ==
    /\ disk_first = NULL
    /\ \E g \in BlockGarbage : heap = [d \in DiskIds |-> g]
    /\ allocated = {}
    /\ fault = "none"
    /\ order = << >>
    /\ rlast = NoOp
    /\ it_pc = "idle"
    /\ visited = << >>
    /\ it_changed = FALSE

\* the registry is not involved
RIdle ==
    /\ disk_first = NULL
    /\ heap = << >>
    /\ allocated = {}
    /\ fault = "none"
    /\ order = << >>
    /\ rlast = NoOp
    /\ it_pc = "idle"
    /\ visited = << >>
    /\ it_changed = FALSE

\* an operation can start: no fault has happened
CanCall == fault = "none"

\* the caller that iterates, after an operation that changed the registry or
\* did not: an iteration that is over is forgotten when the registry changes,
\* and of a running one the caller keeps the disk it holds
IterAfter(wrote) ==
    IF ~wrote THEN UNCHANGED <<it_pc, visited, it_changed>>
    ELSE IF it_pc = "iter"
    THEN /\ it_changed' = TRUE
         /\ visited' = <<visited[Len(visited)]>>
         /\ UNCHANGED it_pc
    ELSE it_pc' = "idle" /\ visited' = << >> /\ it_changed' = FALSE

\* a caller calls disk_add(c, data)
DiskAdd(c, data, mem) ==
    /\ CanCall
    /\ mem \in vmm_alloc_disk(allocated)
    /\ LET r == disk_add(disk_first, heap, c, data, mem) IN
         /\ disk_first' = r.first
         /\ heap' = r.heap
         /\ fault' = r.fault
         /\ allocated' = IF r.ret # NULL THEN allocated \cup {r.ret}
                         ELSE allocated
         /\ order' = IF r.ret # NULL THEN Append(order, r.ret) ELSE order
         /\ rlast' = Op("disk_add", NULL, data, data # NULL /\ mem = NULL,
                        r.ret, NULL,
                        r.first # disk_first \/ r.heap # heap)
         /\ IterAfter(r.first # disk_first \/ r.heap # heap)
    /\ UNCHANGED <<pvars, iovars>>

\* a caller calls disk_remove(d), d any address or NULL
DiskRemove(d) ==
    /\ CanCall
    /\ \E left \in IF d = NULL THEN BlockGarbage ELSE vmm_free_disk(heap, d) :
       LET r == disk_remove(disk_first, heap, allocated, d, left) IN
         /\ disk_first' = r.first
         /\ heap' = r.heap
         /\ allocated' = r.allocated
         /\ fault' = r.fault
         /\ order' = IF r.freed # NULL
                     THEN SelectSeq(order, LAMBDA x : x # d) ELSE order
         /\ rlast' = Op("disk_remove", d, NULL, FALSE, NULL, r.freed,
                        r.first # disk_first \/ r.heap # heap)
         /\ IterAfter(r.freed # NULL)
    /\ UNCHANGED <<pvars, iovars>>

\* a caller starts to iterate, or starts again: disk_next(NULL)
IterStart ==
    /\ CanCall
    /\ LET r == disk_next(disk_first, heap, NULL) IN
         /\ visited' = IF r = NULL THEN << >> ELSE <<r>>
         /\ it_pc' = IF r = NULL THEN "end" ELSE "iter"
    /\ it_changed' = FALSE
    /\ UNCHANGED <<disk_first, heap, allocated, fault, order, rlast>>
    /\ UNCHANGED <<pvars, iovars>>

\* the caller passes the disk it got last: disk_next(prev). When prev was
\* removed in between, line 178 reads a freed block: the read is a fault and
\* gives any address, junk
IterStep(junk) ==
    /\ CanCall
    /\ it_pc = "iter"
    /\ Len(visited) <= MaxDisks
    /\ LET prev == visited[Len(visited)]
           r == IF prev \in allocated THEN disk_next(disk_first, heap, prev)
                ELSE junk
       IN /\ visited' = IF r = NULL THEN visited
                         ELSE IF it_changed THEN <<r>>
                         ELSE Append(visited, r)
          /\ it_pc' = IF r = NULL THEN "end" ELSE "iter"
          /\ fault' = IF prev \in allocated THEN "none" ELSE "use_after_free"
    /\ UNCHANGED <<disk_first, heap, allocated, order, rlast, it_changed>>
    /\ UNCHANGED <<pvars, iovars>>

\* disk_part_add(NULL, start, size), lines 32-33
NullPartAdd ==
    /\ CanCall
    /\ rlast' = Op("disk_part_add", NULL, NULL, FALSE, NULL, NULL, FALSE)
    /\ UNCHANGED <<disk_first, heap, allocated, fault, order, it_pc, visited,
                   it_changed>>
    /\ UNCHANGED <<pvars, iovars>>

\* disk_part_next(NULL, part), part NULL or a partition of some disk's list
NullPartNext(part) ==
    /\ CanCall
    /\ LET r == disk_part_next(NULL, parts, part) IN
         /\ fault' = r.fault
         /\ rlast' = Op("disk_part_next", NULL, NULL, FALSE, r.ret, NULL,
                        FALSE)
    /\ UNCHANGED <<disk_first, heap, allocated, order, it_pc, visited,
                   it_changed>>
    /\ UNCHANGED <<pvars, iovars>>

\* disk_part_clear(NULL), lines 81-82
NullPartClear ==
    /\ CanCall
    /\ rlast' = Op("disk_part_clear", NULL, NULL, FALSE, NULL, NULL, FALSE)
    /\ UNCHANGED <<disk_first, heap, allocated, fault, order, it_pc, visited,
                   it_changed>>
    /\ UNCHANGED <<pvars, iovars>>

\* disk_scan(NULL), line 118: it writes disk->available
NullScan ==
    /\ CanCall
    /\ fault' = "null_deref"
    /\ rlast' = Op("disk_scan", NULL, NULL, FALSE, NULL, NULL, FALSE)
    /\ UNCHANGED <<disk_first, heap, allocated, order, it_pc, visited,
                   it_changed>>
    /\ UNCHANGED <<pvars, iovars>>

\* disk_do(NULL, op, offset, size, buf), lines 245 and 215: it reads
\* disk->sector_size
NullDo ==
    /\ CanCall
    /\ fault' = "null_deref"
    /\ rlast' = Op("disk_do", NULL, NULL, FALSE, NULL, NULL, FALSE)
    /\ UNCHANGED <<disk_first, heap, allocated, order, it_pc, visited,
                   it_changed>>
    /\ UNCHANGED <<pvars, iovars>>

\* the controllers register AHCI disks; the registry code never reads the
\* controller field
RNext ==
    \/ \E data \in Handles, mem \in DiskIds \cup {NULL} :
          DiskAdd(DISK_CONTROLLER_AHCI, data, mem)
    \/ \E d \in DiskIds \cup {NULL} : DiskRemove(d)
    \/ IterStart
    \/ \E junk \in DiskIds \cup {NULL} : IterStep(junk)

\* the operations that take a disk, called with NULL, among the operations
\* that change the registry
NullNext ==
    \/ \E data \in Handles, mem \in DiskIds \cup {NULL} :
          DiskAdd(DISK_CONTROLLER_AHCI, data, mem)
    \/ \E d \in DiskIds \cup {NULL} : DiskRemove(d)
    \/ NullPartAdd
    \/ \E part \in Ids(parts) \cup {NULL} : NullPartNext(part)
    \/ NullPartClear
    \/ NullScan
    \/ NullDo

-----------------------------------------------------------------------------
(* Specifications *)

vars == <<pvars, iovars, rvars>>

\* a disk that owns no partition and runs no operation
PIdle ==
    /\ available = FALSE
    /\ parts = << >>
    /\ part_count = 0
    /\ vfs = << >>
    /\ pc = "idle"
    /\ trav = NULL
    /\ pre = NULL
    /\ running = "none"
    /\ nadd = 0
    /\ last_add = NoAdd
    /\ scan = NoScan
    /\ log = << >>
    /\ kept = {}

\* a disk after MaxKey + 1 disk_part_add calls on regions that differ: it was
\* not scanned, its partitions are not available and have no mount
PAdded ==
    /\ available = FALSE
    /\ parts \in {l \in InitLists(MaxKey + 1) :
                     \A i \in 1..Len(l) : ~l[i].available}
    /\ part_count = Len(parts)
    /\ vfs = << >>
    /\ kept = {}
    /\ pc = "idle"
    /\ trav = NULL
    /\ pre = NULL
    /\ running = "none"
    /\ nadd = 0
    /\ last_add = NoAdd
    /\ scan = NoScan
    /\ log = << >>

\* the partition lifecycle of one disk; no transfer is modelled
Init == PInit /\ IOIdle /\ RIdle
Next == PNext
Spec == Init /\ [][Next]_vars

\* one transfer through __disk_do_size
InitIO == PIdle /\ IOInit /\ RIdle
NextIO == IONext
SpecIO == InitIO /\ [][NextIO]_vars

\* disk_part_clear(disk) at the loop test of line 87, on any list of up to
\* MaxParts partitions with any flags and any partitions mounted; scan keeps
\* the list and the registrations the call started with
InitClear ==
    /\ available \in BOOLEAN
    /\ \E n \in 0..MaxParts :
          /\ parts \in InitLists(n)
          /\ part_count = n
          /\ \E m \in SUBSET (1..n) : vfs = InitVfs(n, m) /\ kept = m
    /\ pc = "clear"
    /\ trav = HeadOf(parts)
    /\ pre = NULL
    /\ running = "disk_part_clear"
    /\ nadd = 0
    /\ last_add = NoAdd
    /\ scan = [NoScan EXCEPT !.old_parts = parts, !.old_vfs = vfs]
    /\ log = << >>
    /\ IOIdle
    /\ RIdle

NextClear == ClearStep \/ ClearExit

\* the loop is not interrupted: the caller runs it to its end
SpecClear == InitClear /\ [][NextClear]_vars /\ WF_vars(NextClear)

\* the registry from its construction, with a caller that iterates, beside a
\* disk with partitions that no operation is called on
InitReg == PAdded /\ IOIdle /\ RInit
NextReg == RNext
SpecReg == InitReg /\ [][NextReg]_vars

\* the public operations called with a null disk, on any registry
SpecNull == InitReg /\ [][NullNext]_vars

-----------------------------------------------------------------------------
(* Properties of the partition lifecycle, checked under Spec *)

ScanReturned == pc = "idle" /\ running = "disk_scan"

Key(p) == <<p.start, p.size>>

\* the scan began with exactly two partitions, each mounted once, the info
\* query succeeded, a parser won, and every disk_part_add call of the scan
\* named the partition at position a
C1_Case(a) ==
    /\ ScanReturned
    /\ Len(scan.old_parts) = 2
    /\ \A i \in 1..2 : Mounts(scan.old_vfs, scan.old_parts[i].id) = 1
    /\ scan.info_ok
    /\ scan.winner # "none"
    /\ scan.reported = {Key(scan.old_parts[a])}

\* C1: a rescan of a disk that owns the mounted partitions A and B whose
\* winning parser reports only A returns true, unregisters and removes B,
\* keeps A with exactly one registration and no new vfs_register call for A,
\* and leaves part_count = 1.
C1_Reconciliation ==
    \A a \in 1..2 :
        C1_Case(a) =>
            LET A == scan.old_parts[a].id
                B == scan.old_parts[3 - a].id
            IN /\ scan.ret
               /\ B \notin Ids(parts)
               /\ Mounts(vfs, B) = 0
               /\ A \in Ids(parts)
               /\ Mounts(vfs, A) = 1
               /\ \A e \in 1..Len(log) :
                      ~(log[e].ev = "register" /\ log[e].part = A)
               /\ part_count = 1

\* C4: a disk_part_add whose (start, size) is already in the list returns the
\* existing partition, creates no entry and leaves part_count unchanged.
C4_DedupIdempotent ==
    last_add.call =>
        \A i \in 1..Len(last_add.parts) :
            disk_part_match(last_add.parts[i], last_add.start, last_add.size)
            => /\ last_add.ret = last_add.parts[i].id
               /\ parts = last_add.parts
               /\ part_count = last_add.part_count

\* the last step was a disk_part_add of a partition the list already held
C4_Witness ==
    /\ last_add.call
    /\ \E i \in 1..Len(last_add.parts) :
          disk_part_match(last_add.parts[i], last_add.start, last_add.size)
    /\ Len(parts) = 2

\* C5 (I1): part_count equals the number of entries in the list, between
\* operations and between the iterations of the loop of disk_part_clear.
C5_PartCount == part_count = Len(parts)

\* inside disk_part_clear, after an entry was removed and before the next one
C5_Witness ==
    /\ pc = "clear"
    /\ trav # NULL
    /\ \E e \in 1..Len(log) : log[e].ev = "free"
    /\ parts # << >>

\* C6 (I2): no two partitions of the list have equal start and equal size.
C6_NoDuplicates ==
    \A i, j \in 1..Len(parts) : i # j => Key(parts[i]) # Key(parts[j])

\* disk_part_add has just added a third partition
C6_Witness ==
    /\ last_add.call
    /\ Len(parts) = 3
    /\ Len(last_add.parts) = 2

\* C7 (I3): between operations a partition of the list has a disk-kind mount
\* registration iff a disk_part_clear pass kept it; after a failed scan the
\* partitions added during it have none and the mounted ones still have one.
C7_MountIffKept ==
    pc = "idle" =>
        /\ \A p \in Ids(parts) : (Mounts(vfs, p) >= 1) <=> (p \in kept)
        /\ (running = "disk_scan" /\ ~scan.ret) =>
              /\ \A p \in Ids(parts) \ Ids(scan.old_parts) :
                    Mounts(vfs, p) = 0
              /\ \A p \in Ids(scan.old_parts) :
                    Mounts(scan.old_vfs, p) >= 1 => Mounts(vfs, p) >= 1

\* a scan failed after a parser added a partition, on a disk with a mounted
\* partition and an unmounted one
C7_Witness ==
    /\ ScanReturned
    /\ ~scan.ret
    /\ Ids(parts) \ Ids(scan.old_parts) # {}
    /\ \E p \in Ids(scan.old_parts) : Mounts(vfs, p) = 1
    /\ \E p \in Ids(scan.old_parts) : Mounts(vfs, p) = 0

\* C8 (I4): disk->available is false from the first step of disk_scan until
\* the reconcile phase is over; when disk_scan returns, it is true iff
\* disk_scan returns true, which needs the info query and a parser to succeed.
C8_Available ==
    /\ (running = "disk_scan" /\ pc # "idle") => ~available
    /\ ScanReturned =>
          /\ available <=> scan.ret
          /\ scan.ret => (scan.info_ok /\ scan.winner # "none")

\* a scan has failed after its info query succeeded and a parser added a
\* partition
C8_Witness ==
    /\ ScanReturned
    /\ ~scan.ret
    /\ scan.info_ok
    /\ scan.reported # {}

\* C9: after a disk_scan that returned false, disk->available is false, the
\* partitions that existed before the scan are all still in the list, in
\* place and marked unavailable, and no mount was registered or unregistered.
C9_FailedScan ==
    (ScanReturned /\ ~scan.ret) =>
        /\ ~available
        /\ Len(parts) >= Len(scan.old_parts)
        /\ \A i \in 1..Len(scan.old_parts) :
              /\ i <= Len(parts)
              /\ parts[i] = [scan.old_parts[i] EXCEPT !.available = FALSE]
        /\ vfs = scan.old_vfs
        /\ log = << >>

\* no parser recognized a disk that owned two partitions, marked available
\* and mounted
C9_Witness ==
    /\ ScanReturned
    /\ ~scan.ret
    /\ scan.info_ok
    /\ Len(scan.old_parts) = 2
    /\ \A i \in 1..2 : scan.old_parts[i].available
    /\ Len(vfs) = 2

-----------------------------------------------------------------------------
(* Properties of __disk_do_size, checked under SpecIO *)

\* whole sectors and remaining bytes of the request
ReqK == req.size \div sector_size
ReqR == req.size % sector_size

\* C2: in a transfer of k whole sectors and a remainder, the i-th raw call
\* (i = 0..k-1) targets sector lba+i and the scratch-buffer call sector lba+k.
C2_SectorAddressing ==
    ReqR # 0 =>
        \A i \in 1..Len(raw_calls) : raw_calls[i].lba = req.lba + (i - 1)

\* C3: for the trailing partial sector, a read copies rem bytes from the
\* scratch buffer into the caller's buffer after the raw call; a write hands
\* the controller a sector that starts with the caller's rem bytes and leaves
\* the caller's buffer unmodified (stated for transfers whose raw calls all
\* succeed).
C3_CopyDirection ==
    (/\ io_pc = "done"
     /\ ReqR # 0
     /\ Len(raw_calls) = ReqK + 1
     /\ \A i \in 1..Len(raw_calls) : raw_calls[i].ok) =>
        IF req.op = DISK_OP_READ
        THEN /\ copies = <<[to |-> "buf", at |-> ReqK * sector_size,
                            from |-> "cb", n |-> ReqR]>>
             /\ SubSeq(buf, ReqK * sector_size + 1, req.size)
                    = SubSeq(cb, 1, ReqR)
        ELSE /\ SubSeq(raw_calls[ReqK + 1].data, 1, ReqR)
                    = SubSeq(req.buf, ReqK * sector_size + 1, req.size)
             /\ buf = req.buf

\* C10 (P1): for a size that is a multiple of sector_size, 0 included,
\* __disk_do_size makes exactly one raw call, for sector lba, size/sector_size
\* sectors and the caller's buffer, makes no copy and returns its result.
C10_Aligned ==
    ReqR = 0 =>
        /\ copies = << >>
        /\ io_pc = "entry" => raw_calls = << >>
        /\ io_pc # "entry" =>
              /\ Len(raw_calls) = 1
              /\ raw_calls[1].op = req.op
              /\ raw_calls[1].lba = req.lba
              /\ raw_calls[1].sector_count = ReqK
              /\ raw_calls[1].target = "buf"
              /\ raw_calls[1].offset = 0
        /\ io_pc = "done" => ret = raw_calls[1].ok

\* an aligned read of two sectors has returned true
C10_Witness ==
    /\ io_pc = "done"
    /\ ReqR = 0
    /\ ReqK = 2
    /\ req.op = DISK_OP_READ
    /\ ret

\* the bytes of the caller's memory after the size bytes of the request are
\* as they were before the call
BeyondUntouched ==
    \A i \in (req.size + 1)..Len(buf) : buf[i] = req.buf[i]

AllOk == \A i \in 1..Len(raw_calls) : raw_calls[i].ok

\* what C11 says of a transfer of req.size < sector_size bytes
SubSectorShape ==
    /\ io_pc \in {"entry", "do_copy"} => (raw_calls = << >> /\ copies = << >>)
    /\ io_pc = "halt" => (Len(raw_calls) = 1 /\ copies = << >>)
    /\ io_pc = "done" =>
          /\ Len(raw_calls) = 1
          /\ raw_calls[1].sector_count = 1
          /\ raw_calls[1].target = "cb"
          /\ copies = <<[to |-> "buf", at |-> 0, from |-> "cb",
                         n |-> req.size]>>
          /\ SubSeq(buf, 1, req.size) = SubSeq(cb, 1, req.size)
    /\ BeyondUntouched

\* C11 as stated: for every size < sector_size, __disk_do_size makes exactly
\* one raw call, of one sector into the scratch buffer, copies exactly size
\* bytes at offset 0 and touches no caller byte at index >= size.
C11_SubSector == req.size < sector_size => SubSectorShape

\* C11 amended: the same for every size with 0 < size < sector_size (size 0
\* is a multiple of sector_size and takes the aligned path).
C11_SubSectorNonzero ==
    (0 < req.size /\ req.size < sector_size) => SubSectorShape

\* a read of 0 < size < sector_size bytes has returned true
C11_Witness ==
    /\ io_pc = "done"
    /\ 0 < req.size
    /\ req.size < sector_size
    /\ req.op = DISK_OP_READ
    /\ ret

\* C12 (P3): for size = k * sector_size + r, k >= 1, 0 < r < sector_size, with
\* every raw call succeeding, the loop ends after exactly k iterations, each a
\* raw call of one sector on the caller's buffer at offsets 0, sector_size,
\* ..., then one scratch-buffer raw call and a copy of r bytes at offset
\* k * sector_size; no caller byte at index >= size is touched.
C12_Remainder ==
    (ReqK >= 1 /\ ReqR # 0) =>
        /\ Len(raw_calls) <= ReqK + 1
        /\ \A i \in 1..Len(raw_calls) :
              /\ raw_calls[i].sector_count = 1
              /\ i <= ReqK => /\ raw_calls[i].target = "buf"
                              /\ raw_calls[i].offset = (i - 1) * sector_size
              /\ i = ReqK + 1 => raw_calls[i].target = "cb"
        /\ (io_pc = "loop" /\ AllOk) =>
              /\ size = req.size - Len(raw_calls) * sector_size
              /\ buf_offset = Len(raw_calls) * sector_size
              /\ size >= rem
        /\ io_pc = "do_copy" => (Len(raw_calls) = ReqK /\ copies = << >>)
        /\ (io_pc = "done" /\ AllOk) =>
              /\ Len(raw_calls) = ReqK + 1
              /\ copies = <<[to |-> "buf", at |-> ReqK * sector_size,
                             from |-> "cb", n |-> ReqR]>>
        /\ BeyondUntouched

\* a transfer of two whole sectors and a remainder has returned true
C12_Witness ==
    /\ io_pc = "done"
    /\ ReqK = 2
    /\ ReqR # 0
    /\ AllOk
    /\ ret

\* C13: once a raw call has returned false, __disk_do_size makes no later raw
\* call and no later copy and returns false; it returns true only if every
\* raw call returned true.  (The only copy follows the last raw call.)
C13_FailureAborts ==
    /\ \A i \in 1..(Len(raw_calls) - 1) : raw_calls[i].ok
    /\ ~AllOk => copies = << >>
    /\ io_pc = "done" => (ret => AllOk)
    /\ (io_pc = "done" /\ ~AllOk) => ~ret


\* C18: a raw operation on a disk whose controller is not a known kind calls
\* panic, invokes no controller primitive and never returns; on an AHCI disk
\* every raw operation invokes the AHCI primitive exactly once, with the
\* operation, sector address, sector count and buffer it was given, and returns
\* the primitive's boolean unchanged
C18_Dispatch ==
    /\ controller # DISK_CONTROLLER_AHCI =>
          /\ port_calls = << >>
          /\ io_pc # "done"
          /\ ret = FALSE
          /\ raw_calls # << >> =>
                (panicked /\ io_pc = "halt" /\ Len(raw_calls) = 1)
    /\ controller = DISK_CONTROLLER_AHCI =>
          /\ ~panicked
          /\ io_pc # "halt"
          /\ Len(port_calls) = Len(raw_calls)
          /\ \A i \in 1..Len(raw_calls) :
                /\ port_calls[i].op = raw_calls[i].op
                /\ port_calls[i].lba = raw_calls[i].lba
                /\ port_calls[i].sector_count = raw_calls[i].sector_count
                /\ port_calls[i].target = raw_calls[i].target
                /\ port_calls[i].offset = raw_calls[i].offset
                /\ port_calls[i].ret = raw_calls[i].ok
                /\ port_calls[i].returned = port_calls[i].ret
          /\ (io_pc = "done" /\ raw_calls # << >> /\ ~AllOk) => ~ret

\* an unaligned read on a disk of unknown controller has panicked at its
\* first raw operation
C18_Witness ==
    /\ controller # DISK_CONTROLLER_AHCI
    /\ panicked
    /\ io_pc = "halt"
    /\ req.size > sector_size
    /\ ReqR # 0
    /\ Len(raw_calls) = 1


\* C19: during a scan, after the mark phase, the partition a disk_part_add
\* call returns, whether it matched an existing entry or was newly created,
\* has available = true when the call returns
C19_AddSetsAvailable ==
    (running = "disk_scan" /\ pc \in {"gpt", "mbr"} /\ last_add.call
        /\ last_add.ret # NULL) =>
            parts[IndexOf(parts, last_add.ret)].available


\* the number of events of kind ev for partition p in the log
Events(ev, p) ==
    Cardinality({e \in 1..Len(log) : log[e].ev = ev /\ log[e].part = p})

\* what the sweep leaves, in terms of the list and the registrations it began
\* with
SweepResult ==
    LET old == scan.old_parts
        IsAvailable(q) == q.available
        gone == {i \in 1..Len(old) : ~old[i].available}
    IN /\ parts = SelectSeq(old, IsAvailable)
       /\ \A p \in Ids(parts) : Mounts(vfs, p) = 1
       /\ \A i \in 1..Len(old) :
             LET p == old[i].id IN
             /\ Events("register", p) =
                   IF old[i].available /\ Mounts(scan.old_vfs, p) = 0
                   THEN 1 ELSE 0
             /\ Events("free", p) = IF old[i].available THEN 0 ELSE 1
             /\ Events("unregister", p) =
                   IF ~old[i].available /\ Mounts(scan.old_vfs, p) = 1
                   THEN 1 ELSE 0
             /\ ~old[i].available =>
                   /\ p \notin Ids(parts)
                   /\ Mounts(vfs, p) = 0
                   /\ \A e, f \in 1..Len(log) :
                         (log[e].ev = "unregister" /\ log[e].part = p
                            /\ log[f].ev = "free" /\ log[f].part = p) => e < f
       /\ part_count = Len(old) - Cardinality(gone)

\* C20: the loop of disk_part_clear terminates, and then the list holds
\* exactly the partitions that were available, in their original order, each
\* with one mount registration (registered only where none existed); every
\* unavailable partition was unlinked and freed, its mount unregistered before
\* the free, and part_count went down by the number of partitions removed
C20_Sweep == <>(pc = "idle") /\ [](pc = "idle" => SweepResult)

\* the sweep is over on a list that began with a mounted unavailable head, an
\* unmounted available entry and an unavailable tail
C20_Witness ==
    /\ pc = "idle"
    /\ running = "disk_part_clear"
    /\ Len(scan.old_parts) = 3
    /\ ~scan.old_parts[1].available
    /\ Mounts(scan.old_vfs, scan.old_parts[1].id) = 1
    /\ scan.old_parts[2].available
    /\ Mounts(scan.old_vfs, scan.old_parts[2].id) = 0
    /\ ~scan.old_parts[3].available


-----------------------------------------------------------------------------
(* Properties of the registry, checked under SpecReg and SpecNull *)

\* the public operations that take a disk
DiskOps == {"disk_part_add", "disk_part_next", "disk_part_clear", "disk_scan",
            "disk_remove", "disk_do"}

\* the last operation wrote neither to the registry nor to a disk
RegistryUntouched ==
    /\ ~rlast.wrote
    /\ order = rlast.old_order

\* C14: disk_part_add, disk_part_next, disk_part_clear, disk_scan, disk_remove
\* and disk_do called with a null disk change no registry, partition or mount
\* state and do not dereference the null pointer
C14_NullDiskNoOp ==
    (rlast.op \in DiskOps /\ rlast.disk = NULL) =>
        /\ fault = "none"
        /\ RegistryUntouched
        /\ PAdded

\* C15: disk_remove of a disk that is not in the registry, or on an empty
\* registry, leaves the registry unchanged and frees nothing; disk_remove of a
\* registered disk removes and frees exactly that disk and tears down no
\* partition or mount
C15_RemoveAbsent ==
    rlast.op = "disk_remove" =>
        IF \E i \in 1..Len(rlast.old_order) : rlast.old_order[i] = rlast.disk
        THEN /\ order = SelectSeq(rlast.old_order,
                                  LAMBDA x : x # rlast.disk)
             /\ Chain(disk_first, heap) = order
             /\ rlast.freed = rlast.disk
             /\ fault = "none"
             /\ PAdded
        ELSE /\ RegistryUntouched
             /\ rlast.freed = NULL
             /\ fault = "none"

\* C16: iterating with disk_next from disk_next(NULL) visits exactly the
\* registered disks, each once, in registration order, and then gets NULL; a
\* disk added to an empty registry has sector_size 512, part_count 0,
\* available false and is the only disk iterated
C16_Iteration ==
    /\ \A i, j \in 1..Len(order) : i # j => order[i] # order[j]
    /\ (it_pc = "iter" /\ ~it_changed) =>
          (visited # << >> /\ Len(visited) <= Len(order)
              /\ visited = SubSeq(order, 1, Len(visited)))
    /\ (it_pc = "end" /\ ~it_changed) => visited = order
    /\ (rlast.op = "disk_add" /\ rlast.ret # NULL /\ rlast.old_order = << >>) =>
          /\ heap[rlast.ret].sector_size = DISK_DEFAULT_SECTOR_SIZE
          /\ heap[rlast.ret].part_count = 0
          /\ ~heap[rlast.ret].available
          /\ order = <<rlast.ret>>

\* an iteration has ended on the two disks left after the second of three
\* disks was removed
C16_Witness ==
    /\ it_pc = "end"
    /\ ~it_changed
    /\ Len(visited) = 2
    /\ rlast.op = "disk_remove"
    /\ Len(rlast.old_order) = 3
    /\ rlast.disk = rlast.old_order[2]
    /\ rlast.freed = rlast.disk

\* C17: disk_add with data = NULL, or with vmm_alloc returning NULL, returns
\* NULL, writes through no null pointer and leaves the registry unchanged
C17_AddFailsCleanly ==
    (rlast.op = "disk_add" /\ (rlast.data = NULL \/ rlast.alloc_null)) =>
        /\ rlast.ret = NULL
        /\ fault = "none"
        /\ RegistryUntouched

=============================================================================
